---- MODULE Spec2Model ----
(***************************************************************************)
(* A model of scanner.py: the catalog scanner that decodes a video,        *)
(* slices every third frame into item rows, runs OCR on the rows and       *)
(* matches the recognised names against the item database.                 *)
(*                                                                         *)
(* Strings are sequences of character codes (Python code points), so that  *)
(* str.strip, str.lower, str.split, string comparison and the difflib      *)
(* similarity ratio are computed, not assumed.                             *)
(***************************************************************************)
EXTENDS Integers, Sequences, FiniteSets, TLC

(***************************************************************************)
(* Bounds of the model.                                                    *)
(***************************************************************************)
MaxFrames == 4
MaxTextLen == 4
MaxNameLen == 3
MaxLines == 2

(***************************************************************************)
(* Character codes.                                                        *)
(***************************************************************************)
LF == 10
SP == 32
UpperA == 65
UpperZ == 90
LowerA == 97
LowerB == 98
CaseOffset == 32

Min(x, y) == IF x <= y THEN x ELSE y
Max(x, y) == IF x >= y THEN x ELSE y

\* All strings over alphabet A of length lo..hi.
StringsOver(A, lo, hi) == UNION {[1..n -> A] : n \in lo..hi}

\* All subsets of S with at most n elements.
SubsetsUpTo(S, n) == {T \in SUBSET S : Cardinality(T) <= n}

(***************************************************************************)
(* Python str operations used by run_tesseract and sorted().               *)
(***************************************************************************)
\* str.isspace for one character: the ASCII whitespace of str.strip().
IsSpace(c) == c \in {9, 10, 11, 12, 13, 28, 29, 30, 31, 32}

\* str.lower for one character (ASCII).
LowerChar(c) == IF c >= UpperA /\ c <= UpperZ THEN c + CaseOffset ELSE c

lower(s) == [k \in 1..Len(s) |-> LowerChar(s[k])]

\* str.strip(): drop leading and trailing whitespace.
strip(s) ==
    LET keep == {k \in 1..Len(s) : ~IsSpace(s[k])}
    IN  IF keep = {} THEN <<>>
        ELSE LET first == CHOOSE k \in keep : \A m \in keep : k <= m
                 last  == CHOOSE k \in keep : \A m \in keep : k >= m
             IN  SubSeq(s, first, last)

\* str.split('\n'): the pieces between line feeds, empty pieces included.
RECURSIVE split(_)
split(s) ==
    LET nl == {k \in 1..Len(s) : s[k] = LF}
    IN  IF nl = {} THEN <<s>>
        ELSE LET p == CHOOSE k \in nl : \A m \in nl : k <= m
             IN  <<SubSeq(s, 1, p - 1)>> \o split(SubSeq(s, p + 1, Len(s)))

\* Python's str ordering: code point by code point, a proper prefix first.
StrLess(s, t) ==
    \E k \in 1..(Min(Len(s), Len(t)) + 1) :
        /\ \A m \in 1..(k - 1) : s[m] = t[m]
        /\ \/ k = Len(s) + 1 /\ k <= Len(t)
           \/ k <= Len(s) /\ k <= Len(t) /\ s[k] < t[k]

\* The strings in descending order.
RECURSIVE sorted_descending(_)
sorted_descending(S) ==
    IF S = {} THEN <<>>
    ELSE LET greatest == CHOOSE s \in S : \A t \in S \ {s} : StrLess(t, s)
         IN  <<greatest>> \o sorted_descending(S \ {greatest})

\* sorted(): repeatedly take the least remaining string.
RECURSIVE sorted(_)
sorted(S) ==
    IF S = {} THEN <<>>
    ELSE LET least == CHOOSE s \in S : \A t \in S \ {s} : StrLess(s, t)
         IN  <<least>> \o sorted(S \ {least})

(***************************************************************************)
(* difflib.SequenceMatcher(None, a, b), as get_close_matches uses it:      *)
(* no junk predicate, and the autojunk heuristic needs 200 characters.     *)
(***************************************************************************)
\* find_longest_match(alo, ahi, blo, bhi), 0-based half-open ranges: the
\* longest common block, the earliest in a, then the earliest in b.
find_longest_match(a, b, alo, ahi, blo, bhi) ==
    LET blocks == {m \in (alo..(ahi - 1)) \X (blo..(bhi - 1)) \X (1..(ahi - alo)) :
                      /\ m[1] + m[3] <= ahi
                      /\ m[2] + m[3] <= bhi
                      /\ \A d \in 0..(m[3] - 1) : a[m[1] + d + 1] = b[m[2] + d + 1]}
        Better(m, n) == \/ m[3] > n[3]
                        \/ m[3] = n[3] /\ m[1] < n[1]
                        \/ m[3] = n[3] /\ m[1] = n[1] /\ m[2] < n[2]
    IN  IF blocks = {} THEN <<alo, blo, 0>>
        ELSE CHOOSE m \in blocks : \A n \in blocks \ {m} : Better(m, n)

\* Sum of the sizes of get_matching_blocks(): the longest block, then the
\* pieces to its left and to its right.
RECURSIVE matches(_, _, _, _, _, _)
matches(a, b, alo, ahi, blo, bhi) ==
    LET m == find_longest_match(a, b, alo, ahi, blo, bhi)
    IN  IF m[3] = 0 THEN 0
        ELSE m[3]
             + (IF alo < m[1] /\ blo < m[2]
                THEN matches(a, b, alo, m[1], blo, m[2]) ELSE 0)
             + (IF m[1] + m[3] < ahi /\ m[2] + m[3] < bhi
                THEN matches(a, b, m[1] + m[3], ahi, m[2] + m[3], bhi) ELSE 0)

\* _calculate_ratio(matches, length) as the fraction <<numerator, denominator>>.
calculate_ratio(m, length) == IF length > 0 THEN <<2 * m, length>> ELSE <<1, 1>>

ratio(a, b) == calculate_ratio(matches(a, b, 0, Len(a), 0, Len(b)), Len(a) + Len(b))

\* quick_ratio(): the size of the multiset intersection of the characters.
quick_ratio(a, b) ==
    LET count(s, c) == Cardinality({k \in 1..Len(s) : s[k] = c})
        chars == {b[k] : k \in 1..Len(b)}
        RECURSIVE total(_)
        total(C) == IF C = {} THEN 0
                    ELSE LET c == CHOOSE x \in C : TRUE
                         IN  Min(count(a, c), count(b, c)) + total(C \ {c})
    IN  calculate_ratio(total(chars), Len(a) + Len(b))

real_quick_ratio(a, b) == calculate_ratio(Min(Len(a), Len(b)), Len(a) + Len(b))

\* Comparison of two fractions with positive denominators.
FracGeq(p, q) == p[1] * q[2] >= q[1] * p[2]
FracGreater(p, q) == p[1] * q[2] > q[1] * p[2]


(***************************************************************************)
(* difflib.get_close_matches(word, possibilities, n=1, cutoff=0.8).        *)
(* The cutoff 0.8 is the fraction CutoffNum / CutoffDen; 2.0 * m / length  *)
(* rounds to the float 0.8 exactly when the fraction equals 4/5.           *)
(***************************************************************************)
CutoffNum == 8
CutoffDen == 10

\* A cutoff that has to be exceeded.
AtCutoffStrict(r) == r[1] * CutoffDen > CutoffNum * r[2]

\* "ratio >= cutoff" of get_close_matches.
AtCutoff(r) == r[1] * CutoffDen >= CutoffNum * r[2]

\* The (score, x) tuples get_close_matches collects: the two cheap upper
\* bounds are tested before the ratio itself.
close_candidates(word, possibilities) ==
    {x \in possibilities : /\ AtCutoff(real_quick_ratio(x, word))
                           /\ AtCutoff(quick_ratio(x, word))
                           /\ AtCutoff(ratio(x, word))}

\* heapq.nlargest(1, result) on (score, x) tuples: the largest score, and
\* among equal scores the largest string.
TupleGreater(word, x, y) ==
    \/ FracGreater(ratio(x, word), ratio(y, word))
    \/ /\ ratio(x, word)[1] * ratio(y, word)[2] = ratio(y, word)[1] * ratio(x, word)[2]
       /\ StrLess(y, x)

\* The word itself handed back as its own closest match.
get_close_matches_unverified(word, possibilities) == <<word>>

get_close_matches(word, possibilities) ==
    LET result == close_candidates(word, possibilities)
    IN  IF result = {} THEN <<>>
        ELSE <<CHOOSE x \in result : \A y \in result \ {x} : TupleGreater(word, x, y)>>

(***************************************************************************)
(* Frames.  A decoded frame is modelled by the resolution of the video and *)
(* by column 635 of rows 150.. of its grayscale conversion, which is       *)
(* column 0 of the region read_frames cuts out: px maps the marked rows of *)
(* the region to their intensity, every other row has intensity bg.        *)
(***************************************************************************)
RoiTop == 150
RoiBottom == 630
RoiLeft == 635
RoiRight == 1050
LineThreshold == 200
MinGap == 40
MaxGap == 60
Inset == 5
SampleStride == 3

\* Length of the slice lo:hi of an axis of n elements.
SliceLen(n, lo, hi) == Max(0, Min(n, hi) - Min(n, lo))

\* gray[150:630, 635:1050]
Roi(rows, cols, f) ==
    LET h == SliceLen(rows, RoiTop, RoiBottom)
    IN  [h |-> h, w |-> SliceLen(cols, RoiLeft, RoiRight),
         px |-> [y \in {z \in DOMAIN f.px : z < h} |-> f.px[y]], bg |-> f.bg]

\* frame[y, 0]
Intensity(frame, y) == IF y \in DOMAIN frame.px THEN frame.px[y] ELSE frame.bg

\* frame[:, 0] raises IndexError on a region without columns.
parse_frame_raises(frame) == frame.w = 0

\* The elements of a finite set of integers in ascending order.
RECURSIVE Ascending(_)
Ascending(S) ==
    IF S = {} THEN <<>>
    ELSE LET least == CHOOSE y \in S : \A z \in S : y <= z
         IN  <<least>> \o Ascending(S \ {least})

\* The detected lines without the leading 0.
frame_lines_unprefixed(frame) ==
    Ascending({y \in 0..(frame.h - 1) : Intensity(frame, y) < LineThreshold})

\* lines = [0] + list((frame[:, 0] < 200).nonzero()[0])
frame_lines(frame) ==
    <<0>> \o Ascending({y \in 0..(frame.h - 1) : Intensity(frame, y) < LineThreshold})

\* frame[top:bot, :]
Crop(frame, top, bot) ==
    [top |-> top, bot |-> bot, w |-> frame.w,
     px |-> [y \in {z \in DOMAIN frame.px : z >= top /\ z < bot} |-> frame.px[y]],
     bg |-> frame.bg]

\* A band that includes its ends.
InBandInclusive(y1, y2) == MinGap <= y2 - y1 /\ y2 - y1 <= MaxGap

\* "40 < y2 - y1 < 60"
InBand(y1, y2) == MinGap < y2 - y1 /\ y2 - y1 < MaxGap

\* The rows parse_frame yields, in order, for a frame with columns.
parse_frame(frame) ==
    LET lines == frame_lines(frame)
        RECURSIVE from(_)
        from(k) ==
            IF k >= Len(lines) THEN <<>>
            ELSE (IF InBand(lines[k], lines[k + 1])
                  THEN <<Crop(frame, lines[k] + Inset, lines[k + 1] - Inset)>>
                  ELSE <<>>) \o from(k + 1)
    IN  from(1)

\* {t.strip().lower() for t in parsed_text.split('\n') if t}
clean_names(parsed_text) ==
    LET parts == split(parsed_text)
    IN  {lower(strip(parts[k])) : k \in {m \in 1..Len(parts) : parts[m] # <<>>}}


(***************************************************************************)
(* Inputs: video files, what the OCR engine answers, item files.           *)
(***************************************************************************)
Marks(S, v) == [y \in S |-> v]

\* Frames of the scan: no dashed line; dashed lines at rows 50 and 100 of
\* the region; one dashed line at row 45; dashed lines at rows 30 and 130.
ScanFrames ==
    {[px |-> Marks({}, 0), bg |-> 255],
     [px |-> Marks({50, 100}, 0), bg |-> 255],
     [px |-> Marks({45}, 199), bg |-> 200],
     [px |-> Marks({30, 130}, 0), bg |-> 255]}

\* A 1280x720 recording, and a 320x240 one whose region has no columns.
ScanResolutions == {<<720, 1280>>, <<240, 320>>}

\* A file VideoCapture cannot open decodes to nothing.
Unreadable == [readable |-> FALSE, rows |-> 0, cols |-> 0, frames |-> <<>>]

VideosOf(Resolutions, Frames, n) ==
    {[readable |-> TRUE, rows |-> r[1], cols |-> r[2], frames |-> fs] :
        r \in Resolutions, fs \in UNION {[1..k -> Frames] : k \in 0..n}}

ScanVideos == VideosOf(ScanResolutions, ScanFrames, MaxFrames) \cup {Unreadable}

\* Rows of the region that carry a mark in the frames given to parse_frame.
MarkRows == {0, 5, 40, 41, 59, 60, 82, 100, 101, 479}
MarkValues == {0, 199, 200, 255}

SegmenterFrames ==
    {[px |-> m, bg |-> b] :
        m \in UNION {[S -> MarkValues] : S \in SubsetsUpTo(MarkRows, MaxLines)},
        b \in {200, 255}}

SegmenterResolutions == {<<720, 1280>>, <<240, 320>>, <<200, 1280>>}

SegmenterVideos ==
    {[readable |-> TRUE, rows |-> r[1], cols |-> r[2], frames |-> <<f>>] :
        r \in SegmenterResolutions, f \in SegmenterFrames}

a == LowerA
b == LowerB

\* Answers of the OCR engine during the scan.
ScanTexts ==
    {<<>>,
     <<a, b, b, LF, a, b>>,
     <<UpperA, b, SP, LF, LF, a, b, LF>>,
     <<b, b, b>>,
     <<a, b, LF, SP, LF, a, b, b, b>>,
     <<a, b, LF, a, b, b, b, LF, b>>}

\* Every short text over line feed, space, an upper case and two lower case
\* letters.
AllTexts == StringsOver({LF, SP, UpperA, LowerA, LowerB}, 0, MaxTextLen)

\* Two-line texts of lower case words and blank lines.
NameLines == StringsOver({LowerA, LowerB}, 0, MaxNameLen) \cup {<<SP>>}
NameTexts == {l1 \o <<LF>> \o l2 : l1 \in NameLines, l2 \in NameLines}

\* Contents of items/items_en-US.json.
ScanItemFiles == {{}, {<<a, b, b>>}, {<<a, b>>, <<b, a>>}, {<<a, b, b>>, <<a, a, b>>, <<b>>}}

ItemNames == {<<a, b>>, <<a, b, b>>, <<a, a, b>>, <<b, a>>, <<a, b, a, b>>}
AllItemFiles == SUBSET ItemNames

(***************************************************************************)
(* State.                                                                  *)
(***************************************************************************)
VARIABLES
    pc,             \* where scan_catalog is
    video,          \* the file behind video_file
    cap,            \* the cv2.VideoCapture of read_frames
    pos,            \* frames cap has decoded
    i,              \* enumerate() index of parse_video
    frame,          \* the frame read_frames yielded last
    all_rows,       \* all_rows of parse_video / item_rows of scan_catalog
    parsed_text,    \* what pytesseract.image_to_string returned
    item_names,     \* the set run_tesseract returned
    item_db,        \* the loaded item database
    todo,           \* the names match_items has still to visit
    matched_items,  \* matched_items of match_items
    log,            \* logging records written by match_items
    result,         \* the list scan_catalog returns
    err             \* the exception that ended the scan

vars == <<pc, video, cap, pos, i, frame, all_rows, parsed_text, item_names,
          item_db, todo, matched_items, log, result, err>>

NoFrame == [h |-> 0, w |-> 0, px |-> <<>>, bg |-> 0]

\* scan_catalog(video_file) is called.
Called(Videos) ==
    /\ pc = "start"
    /\ video \in Videos
    /\ cap = "unbound"
    /\ pos = 0
    /\ i = 0
    /\ frame = NoFrame
    /\ all_rows = <<>>
    /\ parsed_text = <<>>
    /\ item_names = {}
    /\ item_db = {}
    /\ todo = {}
    /\ matched_items = {}
    /\ log = {}
    /\ result = <<>>
    /\ err = "none"

Init == Called(ScanVideos)

(***************************************************************************)
(* read_frames and parse_video.                                            *)
(***************************************************************************)
\* cap = cv2.VideoCapture(filename): never raises, the capture is just not
\* opened when the file cannot be read.
OpenVideo ==
    /\ pc = "start"
    /\ cap' = IF video.readable THEN "opened" ELSE "unopened"
    /\ pc' = "read"
    /\ UNCHANGED <<video, pos, i, frame, all_rows, parsed_text, item_names,
                   item_db, todo, matched_items, log, result, err>>

\* cap.read() of a capture that is opened and has a frame left.
HasFrame == cap = "opened" /\ pos < Len(video.frames)

\* ret is true: the region of the frame is yielded to parse_video.
ReadFrame ==
    /\ pc = "read"
    /\ HasFrame
    /\ frame' = Roi(video.rows, video.cols, video.frames[pos + 1])
    /\ pos' = pos + 1
    /\ pc' = "body"
    /\ UNCHANGED <<video, cap, i, all_rows, parsed_text, item_names,
                   item_db, todo, matched_items, log, result, err>>

\* ret is false: break, cap.release(), the generator is exhausted and
\* parse_video returns all_rows.
VideoOver ==
    /\ pc = "read"
    /\ ~HasFrame
    /\ cap' = "released"
    /\ pc' = "tesseract"
    /\ UNCHANGED <<video, pos, i, frame, all_rows, parsed_text, item_names,
                   item_db, todo, matched_items, log, result, err>>

\* Every frame parsed.
SampledAlways(k) == TRUE

\* "if i % 3 != 0: continue"
Sampled(k) == k % SampleStride = 0

SkipFrame ==
    /\ pc = "body"
    /\ ~Sampled(i)
    /\ i' = i + 1
    /\ pc' = "read"
    /\ UNCHANGED <<video, cap, pos, frame, all_rows, parsed_text, item_names,
                   item_db, todo, matched_items, log, result, err>>

\* all_rows.extend(parse_frame(frame))
ExtendRows ==
    /\ pc = "body"
    /\ Sampled(i)
    /\ ~parse_frame_raises(frame)
    /\ all_rows' = all_rows \o parse_frame(frame)
    /\ i' = i + 1
    /\ pc' = "read"
    /\ UNCHANGED <<video, cap, pos, frame, parsed_text, item_names,
                   item_db, todo, matched_items, log, result, err>>

\* parse_frame raises inside extend(): the exception leaves parse_video and
\* scan_catalog while read_frames is suspended at its yield, so the
\* cap.release() after its loop is not reached.
FrameError ==
    /\ pc = "body"
    /\ Sampled(i)
    /\ parse_frame_raises(frame)
    /\ err' = "IndexError"
    /\ pc' = "aborted"
    /\ UNCHANGED <<video, cap, pos, i, frame, all_rows, parsed_text, item_names,
                   item_db, todo, matched_items, log, result>>

(***************************************************************************)
(* run_tesseract.                                                          *)
(***************************************************************************)
\* cv2.vconcat of an empty list gives no image: depending on the OpenCV
\* build vconcat itself raises, or Image.fromarray raises on its result.
\* image_to_string is not reached.
ConcatFails ==
    /\ pc = "tesseract"
    /\ all_rows = <<>>
    /\ \E e \in {"cv2.error", "AttributeError"} : err' = e
    /\ pc' = "aborted"
    /\ UNCHANGED <<video, cap, pos, i, frame, all_rows, parsed_text, item_names,
                   item_db, todo, matched_items, log, result>>

\* The rows are concatenated, the OCR engine answers one of Texts, and the
\* text is cleaned up.
RunTesseractOn(Texts) ==
    /\ pc = "tesseract"
    /\ all_rows # <<>>
    /\ \E text \in Texts :
          /\ parsed_text' = text
          /\ item_names' = clean_names(text)
    /\ pc' = "load"
    /\ UNCHANGED <<video, cap, pos, i, frame, all_rows,
                   item_db, todo, matched_items, log, result, err>>

RunTesseract == RunTesseractOn(ScanTexts)

(***************************************************************************)
(* scan_catalog: the item database, match_items, sorted.                   *)
(***************************************************************************)
\* item_db = set(json.load(open('items/items_en-US.json'))), and match_items
\* is entered.
LoadItemsFrom(Files) ==
    /\ pc = "load"
    /\ \E db \in Files : item_db' = db
    /\ todo' = item_names
    /\ pc' = "match"
    /\ UNCHANGED <<video, cap, pos, i, frame, all_rows, parsed_text, item_names,
                   matched_items, log, result, err>>

LoadItems == LoadItemsFrom(ScanItemFiles)

\* One iteration of "for item in parsed_names", the set being visited in
\* any order: the name is in the database.
MatchExact ==
    /\ pc = "match"
    /\ \E item \in todo :
          /\ item \in item_db
          /\ matched_items' = matched_items \cup {item}
          /\ todo' = todo \ {item}
    /\ UNCHANGED <<pc, video, cap, pos, i, frame, all_rows, parsed_text,
                   item_names, item_db, log, result, err>>

\* ... the name is not in the database and get_close_matches finds one.
MatchClose ==
    /\ pc = "match"
    /\ \E item \in todo :
          /\ item \notin item_db
          /\ get_close_matches(item, item_db) # <<>>
          /\ log' = log \cup {<<"INFO", item, get_close_matches(item, item_db)[1]>>}
          /\ matched_items' = matched_items \cup {get_close_matches(item, item_db)[1]}
          /\ todo' = todo \ {item}
    /\ UNCHANGED <<pc, video, cap, pos, i, frame, all_rows, parsed_text,
                   item_names, item_db, result, err>>

\* ... the name is not in the database and get_close_matches finds none.
MatchNone ==
    /\ pc = "match"
    /\ \E item \in todo :
          /\ item \notin item_db
          /\ get_close_matches(item, item_db) = <<>>
          /\ log' = log \cup {<<"WARNING", item, <<>> >>}
          /\ todo' = todo \ {item}
    /\ UNCHANGED <<pc, video, cap, pos, i, frame, all_rows, parsed_text,
                   item_names, item_db, matched_items, result, err>>

\* match_items returns and scan_catalog returns sorted(clean_names).
ReturnSorted ==
    /\ pc = "match"
    /\ todo = {}
    /\ result' = sorted(matched_items)
    /\ pc' = "done"
    /\ UNCHANGED <<video, cap, pos, i, frame, all_rows, parsed_text,
                   item_names, item_db, todo, matched_items, log, err>>

Next ==
    \/ OpenVideo
    \/ ReadFrame
    \/ VideoOver
    \/ SkipFrame
    \/ ExtendRows
    \/ FrameError
    \/ ConcatFails
    \/ RunTesseract
    \/ LoadItems
    \/ MatchExact
    \/ MatchClose
    \/ MatchNone
    \/ ReturnSorted

Spec == Init /\ [][Next]_vars


(***************************************************************************)
(* parse_frame on its own: scans of one-frame videos with every marking    *)
(* of the region, stopped where parse_video returns.                       *)
(***************************************************************************)
InitFrame == Called(SegmenterVideos)

NextFrame ==
    \/ OpenVideo
    \/ ReadFrame
    \/ ExtendRows
    \/ FrameError
    \/ VideoOver

SpecFrame == InitFrame /\ [][NextFrame]_vars

(***************************************************************************)
(* run_tesseract on its own: scans of one video whose frame has two rows,  *)
(* the OCR engine answering any short text.                                *)
(***************************************************************************)
TwoRowVideo ==
    [readable |-> TRUE, rows |-> 720, cols |-> 1280,
     frames |-> <<[px |-> Marks({50, 100}, 0), bg |-> 255]>>]

InitText == Called({TwoRowVideo})

RunTesseractAll == RunTesseractOn(AllTexts)

NextText ==
    \/ OpenVideo
    \/ ReadFrame
    \/ ExtendRows
    \/ VideoOver
    \/ RunTesseractAll

SpecText == InitText /\ [][NextText]_vars

(***************************************************************************)
(* match_items and sorted on their own: scans of the same video, the OCR   *)
(* engine answering any two lines and the item file holding any subset of  *)
(* ItemNames.                                                              *)
(***************************************************************************)
InitMatch == Called({TwoRowVideo})

RunTesseractNames == RunTesseractOn(NameTexts)

LoadItemsAll == LoadItemsFrom(AllItemFiles)

NextMatch ==
    \/ OpenVideo
    \/ ReadFrame
    \/ ExtendRows
    \/ VideoOver
    \/ RunTesseractNames
    \/ LoadItemsAll
    \/ MatchExact
    \/ MatchClose
    \/ MatchNone
    \/ ReturnSorted

SpecMatch == InitMatch /\ [][NextMatch]_vars


(***************************************************************************)
(* Properties.                                                             *)
(***************************************************************************)
\* The names match_items has visited.
Visited == item_names \ todo

\* parse_video has returned its list.
VideoParsed == pc \in {"tesseract", "load", "match", "done"}
                  \/ (pc = "aborted" /\ err # "IndexError")

\* The first frame of a one-frame video has been through parse_frame.
FirstFrameParsed == pc \in {"read", "tesseract"} /\ i = 1

\* C1: every string in the set match_items builds is a member of the
\* vocabulary, and so is every string of the list scan_catalog returns,
\* whatever the OCR text was.
C1_ResultWithinVocabulary ==
    /\ matched_items \subseteq item_db
    /\ \A k \in 1..Len(result) : result[k] \in item_db

\* A scan has returned a name that the OCR text held only in a misread form.
C1_Witness ==
    /\ pc = "done"
    /\ result # <<>>
    /\ \E r \in log : r[1] = "INFO" /\ r[2] \notin item_db /\ r[3] \in matched_items

\* C2: once parse_video has stopped consuming read_frames, by returning or
\* by an error raised mid-stream, the video capture has been released.
C2_HandleReleasedOnEveryExit ==
    pc \notin {"start", "read", "body"} => cap = "released"

\* C3: when the video file cannot be opened, read_frames fails with
\* SourceUnavailable instead of producing a sequence of frames, and that
\* error aborts the scan.
C3_UnopenedFailsSourceUnavailable ==
    (~video.readable /\ pc \notin {"start", "read"})
        => (pc = "aborted" /\ err = "SourceUnavailable")

\* A similarity ratio of at least 0.8.
AtLeastFourFifths(r) == 5 * r[1] >= 4 * r[2]

\* The vocabulary entries no other entry is more similar to c than.
MostSimilar(c) ==
    {w \in item_db : \A v \in item_db : FracGeq(ratio(w, c), ratio(v, c))}

Infos(c) == {r \in log : r[1] = "INFO" /\ r[2] = c}
Warned(c) == <<"WARNING", c, <<>> >> \in log

\* C4: every visited candidate c has contributed c itself when c is in the
\* vocabulary; otherwise one vocabulary entry of highest similarity ratio to
\* c when that ratio is at least 0.8; otherwise nothing, with a warning
\* logged and no error.  Nothing else is in the result, and
\* match_items({c}, V) = {c} for c in V.
C4_MatchContribution ==
    pc \in {"match", "done"} =>
        /\ err = "none"
        /\ \A c \in Visited :
              IF c \in item_db
              THEN c \in matched_items /\ Infos(c) = {} /\ ~Warned(c)
              ELSE IF \E v \in item_db : AtLeastFourFifths(ratio(v, c))
              THEN /\ ~Warned(c)
                   /\ \E w \in MostSimilar(c) :
                         /\ AtLeastFourFifths(ratio(w, c))
                         /\ Infos(c) = {<<"INFO", c, w>>}
                         /\ w \in matched_items
              ELSE Infos(c) = {} /\ Warned(c)
        /\ \A w \in matched_items :
              \/ w \in Visited /\ w \in item_db
              \/ \E c \in Visited : <<"INFO", c, w>> \in log
        /\ (pc = "done" /\ Cardinality(item_names) = 1 /\ item_names \subseteq item_db)
              => matched_items = item_names

\* One candidate was accepted at a ratio of exactly 0.8 and another was
\* dropped with a warning.
C4_Witness ==
    /\ pc = "done"
    /\ \E r \in log :
          /\ r[1] = "INFO"
          /\ 5 * ratio(r[3], r[2])[1] = 4 * ratio(r[3], r[2])[2]
          /\ r[3] \in matched_items
    /\ \E c \in item_names : Warned(c) /\ c \notin matched_items

\* The lines of the text, trimmed and lowercased.
TrimmedLines(text) == {lower(strip(split(text)[k])) : k \in 1..Len(split(text))}

\* C5: the set run_tesseract returns is exactly the set of trimmed,
\* lowercased lines of the OCR text without the lines that are empty after
\* trimming: it never contains the empty string.
C5_NoEmptyName ==
    pc = "load" => item_names = TrimmedLines(parsed_text) \ {<<>>}

\* Lexicographic order, character by character.
RECURSIVE Before(_, _)
Before(s, t) ==
    IF s = <<>> THEN t # <<>>
    ELSE IF t = <<>> THEN FALSE
    ELSE \/ Head(s) < Head(t)
         \/ Head(s) = Head(t) /\ Before(Tail(s), Tail(t))

\* C6: the list scan_catalog returns is in ascending lexicographic order
\* without duplicates, and holds what match_items returned.
C6_SortedNoDuplicates ==
    pc = "done" =>
        /\ \A j \in 1..Len(result) : \A k \in 1..Len(result) :
              j < k => Before(result[j], result[k])
        /\ {result[k] : k \in 1..Len(result)} = matched_items

\* A scan returned two names, one of them matched by two different
\* candidates.
C6_Witness ==
    /\ pc = "done"
    /\ Len(result) >= 2
    /\ \E r1 \in log : \E r2 \in log :
          r1[1] = "INFO" /\ r2[1] = "INFO" /\ r1[2] # r2[2] /\ r1[3] = r2[3]

\* C7: when no frame yielded a row, run_tesseract returns an empty set and
\* the scan goes on without an error.
C7_EmptyBatchGivesEmptySet ==
    (all_rows = <<>> /\ cap = "released"
        /\ pc \notin {"start", "read", "body", "tesseract"})
        => (err = "none" /\ item_names = {})

\* The rows of frames 0, 3, 6, ... of a video, frame after frame.
RECURSIVE RowsFrom(_, _)
RowsFrom(v, k) ==
    IF k >= Len(v.frames) THEN <<>>
    ELSE (IF k % 3 = 0
          THEN parse_frame(Roi(v.rows, v.cols, v.frames[k + 1]))
          ELSE <<>>) \o RowsFrom(v, k + 1)

\* C8: parse_video returns the concatenation, in decode order, of the
\* parse_frame outputs of the frames whose index is a multiple of 3, and it
\* has read the video to its end.
C8_EveryThirdFrame ==
    VideoParsed =>
        /\ all_rows = RowsFrom(video, 0)
        /\ pos = Len(video.frames)
        /\ i = Len(video.frames)

\* A four-frame video was parsed: frame 0 gave no row, frame 2 has rows but
\* is not sampled, frame 3 gave rows.
C8_Witness ==
    /\ pc = "tesseract"
    /\ Len(video.frames) = 4
    /\ parse_frame(Roi(video.rows, video.cols, video.frames[1])) = <<>>
    /\ parse_frame(Roi(video.rows, video.cols, video.frames[3])) # <<>>
    /\ all_rows # <<>>

\* The rows of the frame whose column 0 is darker than 200.
DarkRows(f) == {y \in 0..(f.h - 1) : Intensity(f, y) < 200}

\* The consecutive pairs of the dark rows prefixed with row 0, gaps of 0
\* aside, whose gap is strictly between 40 and 60.
BandPairs(f) ==
    {p \in ({0} \cup DarkRows(f)) \X DarkRows(f) :
        /\ p[1] < p[2]
        /\ ~\E y \in DarkRows(f) : p[1] < y /\ y < p[2]
        /\ p[2] - p[1] > 40
        /\ p[2] - p[1] < 60}

\* Row image r is the frame f cut to rows top..bot-1, full width.
IsCrop(r, f, top, bot) ==
    /\ r.top = top
    /\ r.bot = bot
    /\ r.w = f.w
    /\ DOMAIN r.px \subseteq top..(bot - 1)
    /\ \A y \in top..(bot - 1) : Intensity(r, y) = Intensity(f, y)

\* C9: parse_frame yields one row image for each consecutive pair (y1, y2)
\* of the line rows prefixed with 0 whose gap is strictly between 40 and 60,
\* cut to rows [y1+5, y2-5) over the full width, in ascending order, and
\* nothing else.
C9_BandPairsYieldRows ==
    FirstFrameParsed =>
        /\ Len(all_rows) = Cardinality(BandPairs(frame))
        /\ \A k \in 1..Len(all_rows) :
              \E p \in BandPairs(frame) : IsCrop(all_rows[k], frame, p[1] + 5, p[2] - 5)
        /\ \A j \in 1..Len(all_rows) : \A k \in 1..Len(all_rows) :
              j < k => all_rows[j].top < all_rows[k].top

\* A frame whose first line row is not row 0 gave two rows, the first of
\* them from the pair that starts at 0.
C9_Witness ==
    /\ FirstFrameParsed
    /\ 0 \notin DarkRows(frame)
    /\ Len(all_rows) = 2
    /\ all_rows[1].top = 5

\* C10 as stated: a frame with no or one line row yields no row images,
\* whatever the index of the one line row.
C10_AtMostOneLineNoRows ==
    (FirstFrameParsed /\ Cardinality(DarkRows(frame)) <= 1) => all_rows = <<>>

\* C10 amended: a frame with no line row yields no row images; a frame with
\* one line row, at index k, yields the single row image [5, k-5) when
\* 40 < k < 60 and no row image otherwise.
C10_OneLineOneRowInBand ==
    (FirstFrameParsed /\ Cardinality(DarkRows(frame)) <= 1) =>
        IF \E k \in DarkRows(frame) : 40 < k /\ k < 60
        THEN /\ Len(all_rows) = 1
             /\ \A k \in DarkRows(frame) : IsCrop(all_rows[1], frame, 5, k - 5)
        ELSE all_rows = <<>>

\* A frame with exactly one line row gave one row image.
C10_Witness ==
    /\ FirstFrameParsed
    /\ Cardinality(DarkRows(frame)) = 1
    /\ Len(all_rows) = 1

====
